---- MODULE Spec2Model ----
(***************************************************************************)
(* A model of pydmd/costs.py: the COSTS sliding-window fit, the eigenvalue *)
(* clustering into frequency bands and the overlap-add reconstruction.     *)
(*                                                                         *)
(* Representation:                                                         *)
(*   - An optional value is a sequence of length at most one: None is    *)
(*     << >> and a value v that is present is Some(v) = <<v>>.             *)
(*   - The data matrix is represented by its shape (n_data_vars x          *)
(*     n_time_steps); the time vector is 0, 1, ..., so a window's absolute *)
(*     time values are its sample indices.                                 *)
(*   - An eigenvalue is represented by its (signed) imaginary part, an     *)
(*     integer; a zero-padded slot holds 0.                                *)
(*   - A reconstruction kernel weight is kept symbolically: either the     *)
(*     forced value 1 or the Gaussian exp(-(d/2)^2 / sd^2) of the doubled  *)
(*     distance d from the window centre.  Every weight is > 0.            *)
(***************************************************************************)
EXTENDS Integers, Sequences, FiniteSets, TLC

None == << >>

Some(v) == <<v>>

Val(o) == o[1]

(* ----------------------------- bounds ---------------------------------- *)
\* Largest number of time steps of the window-planning specification.
MaxT == 15
\* Largest step size of the window-planning specification.
MaxS == 4
\* Largest number of time steps of the rank / seed / cluster specifications.
MaxFitT == 3
\* Largest number of spatial variables.
MaxVars == 3
\* Largest rank a user configures (svd_rank, max_rank).
MaxRank == 3
\* Largest number of frequency bands asked of the clustering.
MaxComponents == 3

(* ----------------------------- helpers --------------------------------- *)
Min(a, b) == IF a <= b THEN a ELSE b

Abs(x) == IF x < 0 THEN -x ELSE x

RECURSIVE Pow2(_)
Pow2(e) == IF e <= 0 THEN 1 ELSE 2 * Pow2(e - 1)

\* 2^e modulo m, without ever forming 2^e.
RECURSIVE PowMod2(_, _)
PowMod2(e, m) == IF e <= 0 THEN 1 % m ELSE (2 * PowMod2(e - 1, m)) % m

Zeros(n) == [i \in 1..n |-> 0]

(* ------------------- IEEE-754 double arithmetic ------------------------ *)
\* floor(log2(T / L)) for positive integers T and L.
RECURSIVE Log2Up(_, _, _)
Log2Up(T, L, a) == IF L * Pow2(a + 1) <= T THEN Log2Up(T, L, a + 1) ELSE a

RECURSIVE Log2Down(_, _, _)
Log2Down(T, L, j) == IF T * Pow2(j) < L THEN Log2Down(T, L, j + 1) ELSE -j

Log2Ratio(T, L) == IF T >= L THEN Log2Up(T, L, 0) ELSE Log2Down(T, L, 1)

\* The exponent m of the binade just below T: 2^m < T <= 2^(m+1).
RECURSIVE BinadeBelow(_, _)
BinadeBelow(T, m) == IF Pow2(m + 1) < T THEN BinadeBelow(T, m + 1) ELSE m

\* Whether the double product  L * (T / L)  is strictly below T.
\* T / L is rounded to 53 significant bits: with a = floor(log2(T / L)) and
\* rem = (T * 2^(52-a)) mod L the quotient is rounded down iff 0 < 2*rem < L,
\* and the exact product is then T - rem * 2^(a-52).  That product is rounded
\* again, to the doubles just below T, which are 2^(m-52) apart: it stays
\* below T iff rem * 2^(a-52) > 2^(m-53), i.e. rem > 2^(m-a-1).
FloatProductBelow(T, L) ==
    LET a   == Log2Ratio(T, L)
        rem == ((T % L) * PowMod2(52 - a, L)) % L
        m   == IF T = 1 THEN -1 ELSE BinadeBelow(T, 0)
    IN  /\ rem # 0
        /\ 2 * rem < L
        /\ rem > Pow2(m - a - 1)

\* int(window_length * (data.shape[1] / window_length)), in doubles.
FloatNSteps(T, L) == IF FloatProductBelow(T, L) THEN T - 1 ELSE T

\* np.floor(a / b) for an integer a of either sign and b > 0.
FloorDiv(a, b) == IF a >= 0 THEN a \div b ELSE -((-a + b - 1) \div b)

(* --------------------------- window planning --------------------------- *)
\* COSTS._build_windows with integer_windows = False.
BuildWindows(T, L, S) == FloorDiv(FloatNSteps(T, L) - L, S) + 1

\* n_slide_last_window of fit.
NSlideLastWindow(T, L, S, slides) == T - (S * (slides - 1) + L)

\* The samples a Python slice(start, stop) selects from an axis of length T
\* (start and stop are clipped to the axis; a negative start counts from the end).
SliceIndices(start, stop, T) ==
    LET lo == IF start < 0 THEN (IF T + start < 0 THEN 0 ELSE T + start)
              ELSE Min(start, T)
        hi == Min(stop, T)
    IN  {i \in 0..(T - 1) : lo <= i /\ i < hi}

\* get_window_indices without the special case of the flagged last slide.
GetWindowIndicesStepOnly(k, T, L, S, slides, flagged) ==
    SliceIndices(S * k, S * k + L, T)

\* COSTS.get_window_indices: the set of samples of slide k.
GetWindowIndices(k, T, L, S, slides, flagged) ==
    IF k = slides - 1 /\ flagged
    THEN SliceIndices(-L, T, T)
    ELSE SliceIndices(S * k, S * k + L, T)

\* The samples of a window in increasing order (a slice keeps the order).
RECURSIVE SortedSeq(_)
SortedSeq(s) ==
    IF s = {} THEN << >>
    ELSE LET lo == CHOOSE x \in s : \A y \in s : x <= y
         IN  <<lo>> \o SortedSeq(s \ {lo})

(* ------------------------------- ranks --------------------------------- *)
\* pydmd.utils.compute_rank on a rows x cols matrix.  A rank >= 1 is kept up
\* to the matrix's smaller side; svd_rank = 0 asks for the truncation the
\* data decide, opt, which is an input; a negative rank keeps every mode.
ComputeRank(rows, cols, rank, opt) ==
    IF rank >= 1 THEN Min(rank, Min(rows, cols))
    ELSE IF rank = 0 THEN opt
    ELSE Min(rows, cols)

\* The ranks compute_rank can return for svd_rank = 0: the singular values
\* above a threshold that exceeds their median are fewer than half of them,
\* and a count of 0 is raised to 1.
OptRanks(rows, cols) ==
    LET half == Min(rows, cols) \div 2
    IN  1..(IF half < 1 THEN 1 ELSE half)

\* The rank fit configures on the solver for one window (global_svd False).
WindowRank(rows, cols, rank, opt, even, maxr) ==
    LET r0 == ComputeRank(rows, cols, rank, opt)
        r1 == IF even /\ r0 % 2 = 1 THEN r0 + 1 ELSE r0
    IN  IF maxr # None THEN Min(r1, Val(maxr)) ELSE r1

\* svd_rank_pre_allocate as fit sets it; rank1 is the rank of the global basis.
PreAllocate(glob, rank, rank1, rows, cols, opt, maxr) ==
    IF glob THEN rank1
    ELSE IF rank > 0 THEN ComputeRank(rows, cols, rank, opt)
    ELSE IF maxr # None THEN Val(maxr)
    ELSE rows

(* ------------------------------- seeds --------------------------------- *)
\* An eigenvalue seed: kind "eig" holds eigenvalues vals[i] (signs all 1),
\* kind "sqrt" holds signs[i] * sqrt(vals[i]) * 1j.  NoSeed is Python's None.
NoSeed == [kind |-> "None", vals |-> << >>, signs |-> << >>]

EigSeed(vals) == [kind |-> "eig", vals |-> vals, signs |-> [i \in 1..Len(vals) |-> 1]]

\* The two ways _build_initialization can raise: numpy cannot broadcast the
\* operands of the product, or the "only one of" ValueError.
SeedError == [kind |-> "error", vals |-> << >>, signs |-> << >>]

BothSeedsError == [kind |-> "both", vals |-> << >>, signs |-> << >>]

\* np.repeat(a, m): every element m times, in place.
Repeat(a, m) == [i \in 1..(Len(a) * m) |-> a[((i - 1) \div m) + 1]]

\* np.tile([1, -1], m).
Tile(m) == [i \in 1..(2 * m) |-> IF i % 2 = 1 THEN 1 ELSE -1]

\* int(x / y) for y > 0: the quotient truncated towards zero.
IntDiv(x, y) == IF x >= 0 THEN x \div y ELSE -((-x) \div y)

\* The elementwise product of the repeated centroids and the tiled signs,
\* under numpy's broadcasting: equal lengths, or one operand of length 1.
ClusterSeed(centroids, rank, ncomp) ==
    LET m   == IntDiv(rank, ncomp)
        rep == Repeat(centroids, m)
        til == Tile(m)
    IN  IF Len(rep) = Len(til)
        THEN [kind |-> "sqrt", vals |-> rep, signs |-> til]
        ELSE IF Len(rep) = 1
        THEN [kind |-> "sqrt", vals |-> [i \in 1..Len(til) |-> rep[1]], signs |-> til]
        ELSE SeedError

\* COSTS._build_initialization: the branches in the order of the code.
BuildInitialization(artificial, alpha, centroids, rank, ncomp) ==
    IF artificial /\ alpha # NoSeed THEN alpha
    ELSE IF artificial /\ alpha = NoSeed /\ centroids # None
    THEN (IF ncomp = None THEN SeedError
          ELSE ClusterSeed(Val(centroids), rank, Val(ncomp)))
    ELSE IF artificial /\ alpha # NoSeed /\ centroids # None
    THEN BothSeedsError
    ELSE NoSeed

(* ------------------------------ solver --------------------------------- *)
\* The number of eigenvalues BOPDMD.fit returns: the width of the projection
\* basis when one is given, else compute_rank of the window at the
\* configured rank.
SolverRank(basis, rows, cols, rank) ==
    IF basis # None THEN Val(basis) ELSE Min(rank, Min(rows, cols))

\* The eigenvalues of one fitted window: conjugate pairs of frequency f.
SolverEigs(r, f) == [i \in 1..r |-> IF i % 2 = 1 THEN f ELSE -f]

\* The modes (one token per column, never 0) and the amplitudes.
SolverModes(r) == [i \in 1..r |-> i]

SolverAmplitudes(r) == [i \in 1..r |-> 1]

\* An assignment of the values to the whole row, the last value filling the
\* slots beyond them.
AssignSlotsFill(row, vals) ==
    [i \in 1..Len(row) |-> IF i <= Len(vals) THEN vals[i] ELSE vals[Len(vals)]]

\* a[: Len(vals)] = vals on a row of pre-allocated slots.
AssignSlots(row, vals) ==
    [i \in 1..Len(row) |-> IF i <= Len(vals) THEN vals[i] ELSE row[i]]

\* arr[k] = row: only window k's row changes.
AssignWindow(arr, k, row) == [arr EXCEPT ![k] = row]

(* --------------------------- option values ----------------------------- *)
\* A Python value of a solver option or a dataset attribute: its type and
\* its content as a sequence of strings (the elements of a set in sorted
\* order).  Values of different types are never equal.
PyNone == [type |-> "NoneType", items |-> << >>]

PyStr(s) == [type |-> "str", items |-> <<s>>]

PyNum(s) == [type |-> "number", items |-> <<s>>]

PyBool(b) == [type |-> "bool", items |-> <<IF b THEN "True" ELSE "False">>]

PySet(items) == [type |-> "set", items |-> items]

PyList(items) == [type |-> "list", items |-> items]

PyFunction(name) == [type |-> "function", items |-> <<name>>]

PyArray(name) == [type |-> "ndarray", items |-> <<name>>]

\* COSTS._xarray_sanitize.
XarraySanitize(value) ==
    IF value = PyNone THEN PyStr("None")
    ELSE IF value.type = "set" THEN PyList(value.items)
    ELSE IF value.type = "function"
    THEN [type |-> "str", items |-> <<"Custom function">> \o value.items]
    ELSE value

\* COSTS._xarray_unsanitize: a value without a shape that equals the string
\* "None" becomes None, every other value is returned as it is.
XarrayUnsanitize(value) ==
    IF value.type # "ndarray" /\ value = PyStr("None") THEN PyNone
    ELSE value

\* Whether Python's set(value) raises TypeError: the value is not iterable.
SetRaises(value) == value.type \in {"NoneType", "number", "bool", "function"}

\* Python's set(value) of an iterable: the elements of a list or a set, the
\* characters of a string, the entries of an array.
ToSet(value) ==
    IF value.type \in {"list", "set"} THEN PySet(value.items)
    ELSE PySet(<<"elements of">> \o value.items)

\* An optional string of the model as a Python value, and back.
ToPy(opt) == IF opt = None THEN PyNone ELSE PyStr(Val(opt))

FromPy(value) == IF value = PyNone THEN None ELSE Some(value.items[1])

\* The pydmd_kwargs dictionary __init__ stores: the defaults when no
\* dictionary is given, else the user's dictionary with the defaults for
\* the keys it lacks.  (proj_basis is kept in the variable of that name.)
DefaultKwargs == [kw \in {"eig_sort", "use_proj"} |->
                    IF kw = "eig_sort" THEN PyStr("imag") ELSE PyBool(FALSE)]

WithDefaults(user) ==
    [kw \in DOMAIN user \cup DOMAIN DefaultKwargs |->
        IF kw \in DOMAIN user THEN user[kw] ELSE DefaultKwargs[kw]]

(* ------------------------------- state --------------------------------- *)
VARIABLES
    data,                    \* the data set: [vars, steps]
    args,                    \* what the constructor was called with
    svd_rank, global_svd, initialize_artificially, use_last_freq, init_alpha,
    cluster_centroids, force_even_eigs, max_rank, reset_alpha_init,
    n_components, kern_method, proj_basis,
    n_data_vars, n_time_steps, window_length, step_size, n_slides,
    non_integer_n_slide, svd_rank_pre_allocate,
    time_array, modes_array, omega_array, amplitudes_array,
    window_means_array, omega_classes, transform_method,
    optdmd,                  \* the solver object of the running fit
    pc, k,                   \* "idle" | "fit" | "recon", and the loop index
    result,                  \* how the last call ended
    hist,                    \* per fitted window: rank, seed, fitted rank
    raw,                     \* what the clustering capability returned
    include_means,           \* the argument of the running reconstruction
    xn, xr_sep,              \* the buffers of scale_reconstruction
    recon_filter,            \* the last call of build_kern and what it returned
    returned,                \* what the last reconstruction call returned
    pydmd_kwargs,            \* the solver options, but for proj_basis
    ds                       \* the dataset to_xarray returned last

cfgVars == <<args, global_svd, initialize_artificially, use_last_freq,
             force_even_eigs, max_rank, reset_alpha_init, kern_method>>

planVars == <<n_data_vars, n_time_steps, window_length, step_size, n_slides,
              non_integer_n_slide, svd_rank_pre_allocate>>

arrayVars == <<time_array, modes_array, omega_array, amplitudes_array,
               window_means_array>>

clusterVars == <<cluster_centroids, omega_classes, transform_method,
                 n_components, raw>>

reconVars == <<include_means, xn, xr_sep, recon_filter, returned>>

xrVars == <<pydmd_kwargs, ds>>

vars == <<data, cfgVars, svd_rank, init_alpha, proj_basis, planVars,
          arrayVars, clusterVars, optdmd, pc, k, result, hist, reconVars,
          xrVars>>

Ok(op) == [op |-> op, status |-> "ok", error |-> ""]

Raised(op, e) == [op |-> op, status |-> "raised", error |-> e]

Running(op) == [op |-> op, status |-> "running", error |-> ""]

\* COSTS.__init__.  The cluster_centroids argument is stored and then
\* overwritten with None by the block that initializes the fit variables.
Construct(shape, rank, glob, artificial, last, alpha, centroids, reset, even, maxr, ncomp) ==
    /\ data = shape
    /\ args = [init_alpha |-> alpha, cluster_centroids |-> centroids]
    /\ svd_rank = rank
    /\ global_svd = glob
    /\ initialize_artificially = artificial
    /\ use_last_freq = last
    /\ init_alpha = alpha
    /\ cluster_centroids = None
    /\ force_even_eigs = even
    /\ max_rank = maxr
    /\ reset_alpha_init = reset
    /\ n_components = ncomp
    /\ kern_method = "kern"
    /\ proj_basis = None
    /\ n_data_vars = None /\ n_time_steps = None /\ window_length = None
    /\ step_size = None /\ n_slides = None /\ non_integer_n_slide = None
    /\ svd_rank_pre_allocate = None
    /\ time_array = None /\ modes_array = None /\ omega_array = None
    /\ amplitudes_array = None /\ window_means_array = None
    /\ omega_classes = None /\ transform_method = None
    /\ optdmd = None
    /\ pc = "idle" /\ k = 0
    /\ result = Ok("init")
    /\ hist = << >>
    /\ raw = None
    /\ include_means = TRUE /\ xn = None /\ xr_sep = None
    /\ recon_filter = None
    /\ returned = None
    /\ ds = None

\* COSTS.__init__, the solver options: user is the pydmd_kwargs argument.
ConstructKwargs(user) ==
    pydmd_kwargs = IF user = None THEN DefaultKwargs ELSE WithDefaults(Val(user))

(* -------------------------------- fit ---------------------------------- *)
\* A seed update that always carries the fitted eigenvalues forward.
NextSeedCarry(last, reset, first, eigs) == EigSeed(eigs)

\* The seed fit leaves on the solver for the next window (global_svd False).
NextSeed(last, reset, first, eigs) ==
    IF ~last /\ ~reset THEN first
    ELSE IF last THEN EigSeed(eigs)
    ELSE NoSeed

\* A seed update that carries the fitted eigenvalues forward in every mode.
SeedAfterCarry(glob, last, reset, seed, first, eigs) == EigSeed(eigs)

\* The seed on the solver after a window: fit assigns it only when
\* global_svd is False.
SeedAfter(glob, last, reset, seed, first, eigs) ==
    IF glob THEN seed ELSE NextSeed(last, reset, first, eigs)

\* A check of the time vector that accepts every length.
DataAlignedAlways(T, tsize) == TRUE

\* fit's check of the time vector: n_time_steps == time.size.
DataAligned(T, tsize) == T = tsize

\* fit's check of the window length: it raises when window_length exceeds
\* n_time_steps.
WindowFits(L, T) == ~(L > T)

\* A validation of the rank that accepts every rank.
RankErrorNone(glob, rank, even, n) == ""

\* fit's validation of a fixed local rank (global_svd False, svd_rank > 0):
\* the message of the ValueError it raises, "" when it raises none.
RankError(glob, rank, even, n) ==
    IF glob \/ ~(rank > 0) THEN ""
    ELSE IF even /\ rank % 2 = 1 THEN "svd_rank is odd, but force_even_eigs is True."
    ELSE IF rank > n THEN "Rank is larger than the data spatial dimension."
    ELSE ""

\* A window loop that goes on to the next window whatever the solver did.
LoopNextAlways(stored, done) == IF ~done THEN "fit" ELSE "idle"

\* fit's window loop after window k: it goes on to window k + 1 when the
\* window was fitted and stored and was not the last; an exception of the
\* solver or of the assignment leaves the loop and fit.
LoopNext(stored, done) == IF stored /\ ~done THEN "fit" ELSE "idle"

\* COSTS.fit up to the window loop, called with a window length L, a step
\* size S and a time vector of tsize values; opt is the truncation rank the
\* data decide when svd_rank <= 0.  Every assignment made before a raise
\* stays on the object.
Fit(L, S, tsize, opt) ==
    /\ pc = "idle"
    /\ opt \in OptRanks(data.vars, data.steps)
    /\ LET T        == data.steps
           n        == data.vars
           aligned  == DataAligned(T, tsize)
           slides0  == BuildWindows(T, L, S)
           fits     == WindowFits(L, T)
           flagged  == NSlideLastWindow(T, L, S, slides0) > 0
           slides   == IF flagged THEN slides0 + 1 ELSE slides0
           rankErr  == RankError(global_svd, svd_rank, force_even_eigs, n)
           rank1    == IF global_svd THEN ComputeRank(n, T, svd_rank, opt)
                       ELSE svd_rank
           pre      == PreAllocate(global_svd, svd_rank, rank1, n, T, opt, max_rank)
           basis    == IF global_svd THEN Some(rank1) ELSE proj_basis
           alpha    == BuildInitialization(initialize_artificially, init_alpha,
                                           cluster_centroids, rank1, n_components)
           kernOk   == kern_method \in {"kern", "flat"}
           error    == IF ~aligned THEN "Data and time dimensions do not align."
                       ELSE IF ~fits THEN "Window length is larger than the time dimension"
                       ELSE IF rankErr # "" THEN rankErr
                       ELSE IF alpha = SeedError THEN "operands could not be broadcast together"
                       ELSE IF alpha = BothSeedsError
                       THEN "Only one of init_alpha and cluster_centroids can be provided"
                       ELSE IF ~kernOk THEN "Unrecognized argument for kern_method provided"
                       ELSE ""
           planned  == aligned /\ fits
           ranked   == planned /\ rankErr = ""
           seeded   == ranked /\ alpha \notin {SeedError, BothSeedsError}
       IN  /\ window_length' = Some(L)
           /\ step_size' = Some(S)
           /\ n_time_steps' = Some(T)
           /\ n_data_vars' = Some(n)
           /\ n_slides' = IF planned THEN Some(slides)
                          ELSE IF aligned THEN Some(slides0) ELSE n_slides
           /\ non_integer_n_slide' = IF planned THEN Some(flagged)
                                     ELSE non_integer_n_slide
           /\ svd_rank' = IF planned THEN rank1 ELSE svd_rank
           /\ proj_basis' = IF planned THEN basis ELSE proj_basis
           /\ svd_rank_pre_allocate' = IF ranked THEN Some(pre)
                                       ELSE svd_rank_pre_allocate
           /\ time_array' = IF ranked
                            THEN Some([w \in 0..(slides - 1) |-> Zeros(L)])
                            ELSE time_array
           /\ modes_array' = IF ranked
                             THEN Some([w \in 0..(slides - 1) |-> Zeros(pre)])
                             ELSE modes_array
           /\ omega_array' = IF ranked
                             THEN Some([w \in 0..(slides - 1) |-> Zeros(pre)])
                             ELSE omega_array
           /\ amplitudes_array' = IF ranked
                                  THEN Some([w \in 0..(slides - 1) |-> Zeros(pre)])
                                  ELSE amplitudes_array
           /\ window_means_array' = IF ranked
                                    THEN Some([w \in 0..(slides - 1) |-> 0])
                                    ELSE window_means_array
           /\ init_alpha' = IF seeded THEN alpha ELSE init_alpha
           /\ optdmd' = IF seeded
                        THEN Some([svd_rank |-> rank1, init_alpha |-> alpha,
                                   proj_basis |-> basis, eigs |-> << >>])
                        ELSE optdmd
           /\ hist' = << >>
           /\ k' = 0
           /\ pc' = IF error = "" THEN "fit" ELSE "idle"
           /\ result' = IF error = "" THEN Running("fit") ELSE Raised("fit", error)
    /\ UNCHANGED <<data, cfgVars, clusterVars, reconVars, xrVars>>

\* The body of fit's window loop for window w.  f is the frequency of the
\* eigenvalues the solver finds, opt the truncation rank of this window's
\* data, ok whether the solver converges, done whether the loop ends here.
LoopBody(w, f, opt, ok, done) ==
    /\ pc = "fit"
    /\ opt \in OptRanks(Val(n_data_vars), Val(window_length))
    /\ LET T       == Val(n_time_steps)
           n       == Val(n_data_vars)
           L       == Val(window_length)
           slides  == Val(n_slides)
           pre     == Val(svd_rank_pre_allocate)
           solver  == Val(optdmd)
           samples == GetWindowIndices(w, T, L, Val(step_size), slides,
                                       Val(non_integer_n_slide))
           cols    == Cardinality(samples)
           rank    == IF global_svd THEN solver.svd_rank
                      ELSE WindowRank(n, cols, svd_rank, opt, force_even_eigs, max_rank)
           basis   == IF global_svd THEN solver.proj_basis ELSE proj_basis
           seed    == solver.init_alpha
           fitted  == SolverRank(basis, n, cols, rank)
           eigs    == SolverEigs(fitted, f)
           stored  == ok /\ fitted <= pre
           after   == SeedAfter(global_svd, use_last_freq, reset_alpha_init, seed,
                                init_alpha, eigs)
       IN  /\ optdmd' = Some([svd_rank |-> rank,
                              init_alpha |-> IF stored THEN after ELSE seed,
                              proj_basis |-> basis,
                              eigs |-> IF ok THEN eigs ELSE solver.eigs])
           /\ hist' = Append(hist, [window |-> w, rank |-> rank, seed |-> seed,
                                    basis |-> basis,
                                    fitted |-> IF ok THEN fitted ELSE 0,
                                    eigs |-> IF ok THEN eigs ELSE << >>])
           /\ modes_array' = IF stored
               THEN Some(AssignWindow(Val(modes_array), w,
                         AssignSlots(Val(modes_array)[w], SolverModes(fitted))))
               ELSE modes_array
           /\ omega_array' = IF stored
               THEN Some(AssignWindow(Val(omega_array), w,
                         AssignSlots(Val(omega_array)[w], eigs)))
               ELSE omega_array
           /\ amplitudes_array' = IF stored
               THEN Some(AssignWindow(Val(amplitudes_array), w,
                         AssignSlots(Val(amplitudes_array)[w], SolverAmplitudes(fitted))))
               ELSE amplitudes_array
           /\ window_means_array' = IF stored
               THEN Some(AssignWindow(Val(window_means_array), w, w + 1))
               ELSE window_means_array
           /\ time_array' = IF stored
               THEN Some(AssignWindow(Val(time_array), w, SortedSeq(samples)))
               ELSE time_array
           /\ k' = IF stored THEN w + 1 ELSE k
           /\ pc' = LoopNext(stored, done)
           /\ result' = IF ~ok THEN Raised("fit", "solver failure")
                        ELSE IF ~stored
                        THEN Raised("fit", "could not broadcast input array")
                        ELSE IF done THEN Ok("fit") ELSE result
    /\ UNCHANGED <<data, cfgVars, svd_rank, init_alpha, proj_basis, planVars,
                   clusterVars, reconVars, xrVars>>

\* One iteration of fit's window loop: window k, the last one when k + 1
\* is n_slides.
FitWindow(f, opt, ok) ==
    /\ pc = "fit"
    /\ LoopBody(k, f, opt, ok, k + 1 = Val(n_slides))

(* ----------------------------- clustering ------------------------------ *)
\* The scale of the "period" transform: 1 / |omega| is kept as
\* PeriodScale / |omega|, an integer for the frequencies of the model.
PeriodScale == 100

\* Non-finite floating-point values.
PosInf == 1000000

NegInf == -1000000

IsFinite(x) == x # PosInf /\ x # NegInf

\* The frequencies (|imaginary part|) the solver finds: 0 and powers of ten.
Freqs == {0, 1, 10}

RECURSIVE Pow10(_)
Pow10(e) == IF e <= 0 THEN 1 ELSE 10 * Pow10(e - 1)

\* np.log10 of |x|: -inf at 0.
Log10(x) == IF x = 0 THEN NegInf ELSE CHOOSE e \in 0..6 : Pow10(e) = x

SeqMin(s) == CHOOSE x \in {s[i] : i \in 1..Len(s)} :
                 \A j \in 1..Len(s) : x <= s[j]

Finite(s) == SelectSeq(s, IsFinite)

\* COSTS.transform_omega on the flattened eigenvalues; << >> when it raises
\* (an unsupported method, or log10 with no finite value to impute with).
TransformAbsolute(omega) == [i \in 1..Len(omega) |-> Abs(omega[i])]

TransformSquare(omega) == [i \in 1..Len(omega) |-> omega[i] * omega[i]]

TransformLog10(omega) ==
    LET logs == [i \in 1..Len(omega) |-> Log10(Abs(omega[i]))]
    IN  IF Finite(logs) = << >> THEN None
        ELSE Some([i \in 1..Len(omega) |->
                     IF IsFinite(logs[i]) THEN logs[i] ELSE SeqMin(Finite(logs))])

TransformPeriod(omega) ==
    [i \in 1..Len(omega) |->
        IF omega[i] = 0 THEN PosInf ELSE PeriodScale \div Abs(omega[i])]

TransformOmega(omega, method) ==
    IF method = Some("absolute") THEN Some(TransformAbsolute(omega))
    ELSE IF method = Some("square_frequencies") THEN Some(TransformSquare(omega))
    ELSE IF method = Some("log10") THEN TransformLog10(omega)
    ELSE IF method = Some("period") THEN Some(TransformPeriod(omega))
    ELSE None

\* arr.reshape(slides * pre) of a slides x pre array, and its inverse.
Flatten(arr, slides, pre) ==
    [i \in 1..(slides * pre) |-> arr[(i - 1) \div pre][((i - 1) % pre) + 1]]

Reshape(flat, slides, pre) ==
    [w \in 0..(slides - 1) |-> [i \in 1..pre |-> flat[w * pre + i]]]

\* The number of entries of a stored slides x pre array.
Size(arr) ==
    LET rows == DOMAIN arr
    IN  IF rows = {} THEN 0 ELSE Cardinality(rows) * Len(arr[0])

\* The clustering capability's fit_predict: each point is labelled with the
\* nearest of the centroids it settled on (the first one among equals).
Nearest(p, cents) ==
    (CHOOSE i \in 1..Len(cents) :
        /\ \A j \in 1..Len(cents) : Abs(p - cents[i]) <= Abs(p - cents[j])
        /\ \A j \in 1..(i - 1) : Abs(p - cents[j]) > Abs(p - cents[i])) - 1

FitPredict(points, cents) == [i \in 1..Len(points) |-> Nearest(points[i], cents)]

\* np.argsort on a short array: the indices (from 0) in the order of the
\* values, equal values in the order of their indices.
Before(c, i, j) == c[i] < c[j] \/ (c[i] = c[j] /\ i < j)

Argsort(c) ==
    [p \in 1..Len(c) |->
        (CHOOSE i \in 1..Len(c) :
            Cardinality({j \in 1..Len(c) : Before(c, j, i)}) = p - 1) - 1]

\* The sort order itself taken for the lookup table.
LutIsIdx(idx) == idx

\* lut = zeros_like(idx); lut[idx] = arange(n): lut[idx[p]] = p.
Lut(idx) ==
    [r \in 1..Len(idx) |-> (CHOOSE p \in 1..Len(idx) : idx[p] = r - 1) - 1]

\* lut[omega_classes] and cluster_centroids[idx].
Relabel(lut, labels) == [i \in 1..Len(labels) |-> lut[labels[i] + 1]]

SortCentroids(c, idx) == [p \in 1..Len(idx) |-> c[idx[p] + 1]]

\* The values a centroid can settle on: the values of the points.
PointValues(points) == {points[i] : i \in 1..Len(points)}

\* COSTS.cluster_omega, with COSTS._cluster: ncomp bands, the transform
\* method (an optional string), the centroids cents the clustering
\* capability settles on and whether the method has a fit_predict.
ClusterOmega(ncomp, method, cents, has_fit_predict) ==
    /\ pc = "idle"
    /\ Len(cents) = ncomp
    /\ LET stored   == omega_array # None /\ n_slides # None
                       /\ svd_rank_pre_allocate # None
           slides   == Val(n_slides)
           pre      == Val(svd_rank_pre_allocate)
           shaped   == stored /\ Size(Val(omega_array)) = slides * pre
           flat     == Flatten(Val(omega_array), slides, pre)
           points   == TransformOmega(flat, method)
           finite   == \A i \in 1..Len(Val(points)) : IsFinite(Val(points)[i])
           error    == IF ~has_fit_predict
                       THEN "AttributeError: no attribute fit_predict"
                       ELSE IF ~stored THEN "AttributeError: NoneType has no reshape"
                       ELSE IF ~shaped THEN "cannot reshape array"
                       ELSE IF points = None /\ method = Some("log10")
                       THEN "zero-size array to reduction operation minimum"
                       ELSE IF points = None THEN "Transform method not supported."
                       ELSE IF ~finite THEN "Input contains infinity"
                       ELSE IF Len(Val(points)) < ncomp
                       THEN "n_samples should be >= n_clusters"
                       ELSE ""
           labels   == FitPredict(Val(points), cents)
           idx      == Argsort(cents)
           lut      == Lut(idx)
       IN  /\ error = "" => \A i \in 1..ncomp : cents[i] \in PointValues(Val(points))
           /\ IF error = ""
              THEN /\ cluster_centroids' = Some(SortCentroids(cents, idx))
                   /\ omega_classes' = Some(Reshape(Relabel(lut, labels), slides, pre))
                   /\ transform_method' = method
                   /\ n_components' = Some(ncomp)
                   /\ raw' = Some([labels |-> Reshape(labels, slides, pre),
                                   centroids |-> cents, idx |-> idx, lut |-> lut])
                   /\ result' = Ok("cluster_omega")
              ELSE /\ UNCHANGED clusterVars
                   /\ result' = Raised("cluster_omega", error)
    /\ UNCHANGED <<data, cfgVars, svd_rank, init_alpha, proj_basis, planVars,
                   arrayVars, optdmd, pc, k, hist, reconVars, xrVars>>

\* np.arange(lo, hi).
Arange(lo, hi) == [i \in 1..(IF hi > lo THEN hi - lo ELSE 0) |-> lo + i - 1]

\* The band counts cluster_hyperparameter_sweep tries when it is given none:
\* np.arange(max(svd_rank // 4, 2), svd_rank // 2 + 1).
DefaultRange(rank) ==
    LET lo == FloorDiv(rank, 4)
    IN  Arange(IF lo > 2 THEN lo ELSE 2, FloorDiv(rank, 2) + 1)

\* A sweep that keeps the band count it tried as the stored band count.
ClusterHyperparameterSweepStoring(range, method, has_fit_predict, scored) ==
    /\ pc = "idle"
    /\ result' = Ok("cluster_hyperparameter_sweep")
    /\ n_components' = Some(IF range = None THEN 2 ELSE Val(range)[1])
    /\ UNCHANGED <<data, cfgVars, svd_rank, init_alpha, proj_basis, planVars,
                   arrayVars, cluster_centroids, omega_classes, transform_method,
                   raw, optdmd, pc, k, hist, reconVars, xrVars>>

\* COSTS.cluster_hyperparameter_sweep: the band counts to try (None for the
\* default), the transform method, whether the clustering method has a
\* fit_predict, and whether silhouette_score accepts every labelling.  It
\* returns a band count and stores nothing on the object.
ClusterHyperparameterSweep(range, method, has_fit_predict, scored) ==
    /\ pc = "idle"
    /\ LET ns       == IF range = None THEN DefaultRange(svd_rank) ELSE Val(range)
           stored   == omega_array # None /\ n_slides # None
                       /\ svd_rank_pre_allocate # None
           slides   == Val(n_slides)
           pre      == Val(svd_rank_pre_allocate)
           shaped   == stored /\ Size(Val(omega_array)) = slides * pre
           flat     == Flatten(Val(omega_array), slides, pre)
           points   == TransformOmega(flat, method)
           finite   == \A i \in 1..Len(Val(points)) : IsFinite(Val(points)[i])
           error    == IF ~stored THEN "AttributeError: NoneType has no reshape"
                       ELSE IF ~shaped THEN "cannot reshape array"
                       ELSE IF points = None /\ method = Some("log10")
                       THEN "zero-size array to reduction operation minimum"
                       ELSE IF points = None THEN "Transform method not supported."
                       ELSE IF ns = << >>
                       THEN "attempt to get argmax of an empty sequence"
                       ELSE IF ~has_fit_predict
                       THEN "AttributeError: no attribute fit_predict"
                       ELSE IF ~finite THEN "Input contains infinity"
                       ELSE IF \E i \in 1..Len(ns) : Len(Val(points)) < ns[i]
                       THEN "n_samples should be >= n_clusters"
                       ELSE IF ~scored THEN "Number of labels is invalid"
                       ELSE ""
       IN  result' = IF error = "" THEN Ok("cluster_hyperparameter_sweep")
                     ELSE Raised("cluster_hyperparameter_sweep", error)
    /\ UNCHANGED <<data, cfgVars, svd_rank, init_alpha, proj_basis, planVars,
                   arrayVars, clusterVars, optdmd, pc, k, hist, reconVars, xrVars>>

(* --------------------------- reconstruction ---------------------------- *)
\* relative_filter_length as the constructor defaults it.
RelativeFilterLength == 2

\* One weight of a reconstruction kernel: the forced value 1, or the
\* Gaussian exp(-((i - (L-1)/2)^2) / sd^2) with sd = L / relative_filter_length,
\* kept by d = |2i - (L-1)|.  Both are strictly positive.
Gauss(i, L) == [forced |-> FALSE, d |-> Abs(2 * i - (L - 1))]

One(i, L) == [forced |-> TRUE, d |-> Abs(2 * i - (L - 1))]

\* A kernel that is the Gaussian everywhere, whatever the direction.
BuildKernGaussian(L, direction) == Some([p \in 1..L |-> Gauss(p - 1, L)])

\* COSTS.build_kern: the weights at the positions 0..L-1 of a window; None
\* when it raises the ValueError for an unrecognized direction.
BuildKern(L, direction) ==
    IF direction \notin {"forward", "backward", "None"} THEN None
    ELSE Some([p \in 1..L |->
            IF direction = "forward" /\ p - 1 >= L \div 2 THEN One(p - 1, L)
            ELSE IF direction = "backward" /\ p - 1 < L \div 2 THEN One(p - 1, L)
            ELSE Gauss(p - 1, L)])

\* A direct call of COSTS.build_kern, at the default relative_filter_length.
BuildKernCall(L, direction) ==
    /\ pc = "idle"
    /\ recon_filter' = Some([window_length |-> L, direction |-> direction,
                             kern |-> BuildKern(L, direction)])
    /\ result' = IF BuildKern(L, direction) = None
                 THEN Raised("build_kern", "Unrecognized option for direction provided.")
                 ELSE Ok("build_kern")
    /\ UNCHANGED <<data, cfgVars, svd_rank, init_alpha, proj_basis, planVars,
                   arrayVars, clusterVars, optdmd, pc, k, hist, include_means,
                   xn, xr_sep, returned, xrVars>>

\* A choice of the variant that tests for the last window first.
DirectionLastFirst(w, slides) ==
    IF w = slides - 1 THEN "forward"
    ELSE IF w = 0 THEN "backward"
    ELSE "None"

\* The kernel variant scale_reconstruction picks for window w.
Direction(w, slides) ==
    IF w = 0 THEN "backward"
    ELSE IF w = slides - 1 THEN "forward"
    ELSE "None"

\* np.argmin: the first index (from 0) of the smallest value.
ArgMin(c) ==
    (CHOOSE i \in 1..Len(c) :
        /\ \A j \in 1..Len(c) : c[i] <= c[j]
        /\ \A j \in 1..(i - 1) : c[j] > c[i]) - 1

\* np.unique(omega_classes): the band ids present anywhere in the array.
Unique(classes) == {classes[w][i] : w \in DOMAIN classes, i \in 1..Len(classes[0])}

\* The position (from 1) of sample t in the window whose samples are given.
Position(t, samples) == Cardinality({u \in samples : u <= t})

\* xn[window_indices] += recon_filter.
Accumulate(buffer, samples, kern) ==
    [t \in DOMAIN buffer |->
        IF t \in samples THEN Append(buffer[t], kern[Position(t, samples)])
        ELSE buffer[t]]

\* An accumulation that adds the window mean to every band.
AccumulateBandsAllMeans(buffer, samples, w, bands, lowest, means) ==
    [j \in DOMAIN buffer |->
        [t \in DOMAIN buffer[j] |->
            IF j \in bands /\ t \in samples
            THEN Append(buffer[j][t], [window |-> w, mean |-> means])
            ELSE buffer[j][t]]]

\* xr_sep[j, :, window_indices] += xr_sep_window[j], for the bands present;
\* a contribution records its window and whether the window mean was added.
AccumulateBands(buffer, samples, w, bands, lowest, means) ==
    [j \in DOMAIN buffer |->
        [t \in DOMAIN buffer[j] |->
            IF j \in bands /\ t \in samples
            THEN Append(buffer[j][t], [window |-> w, mean |-> means /\ j = lowest])
            ELSE buffer[j][t]]]

\* xr_sep / xn: whether the division is by a non-zero weight everywhere.
Positive(buffer) == \A t \in DOMAIN buffer : buffer[t] # << >>

\* The sum over the bands lo..hi of a buffer of per-band contributions.
RECURSIVE SumBands(_, _, _)
SumBands(buffer, lo, hi) ==
    IF lo > hi THEN [t \in DOMAIN buffer[0] |-> << >>]
    ELSE LET rest == SumBands(buffer, lo + 1, hi)
         IN  [t \in DOMAIN buffer[0] |-> buffer[lo][t] \o rest[t]]

ReconCalls == {"scale_reconstruction", "global_reconstruction", "scale_separation"}

\* What a reconstruction call returns from xr_sep / xn: scale_reconstruction
\* the bands, global_reconstruction their sum, scale_separation band 0 and
\* the sum of the other bands.
ReturnValue(call, buffer, weights) ==
    LET last == Cardinality(DOMAIN buffer) - 1
    IN  IF call = "scale_reconstruction"
        THEN [bands |-> buffer, xn |-> weights]
        ELSE IF call = "global_reconstruction"
        THEN [sum |-> SumBands(buffer, 0, last), xn |-> weights]
        ELSE [low |-> buffer[0], high |-> SumBands(buffer, 1, last), xn |-> weights]

\* A normalization buffer that is kept from the previous call.
NewXnKept(prev, T) ==
    IF prev # None THEN Val(prev) ELSE [t \in 0..(T - 1) |-> << >>]

\* xn = np.zeros(n_time_steps): the buffer holds no weight yet.
NewXn(prev, T) == [t \in 0..(T - 1) |-> << >>]

\* COSTS.scale_reconstruction up to its window loop, called directly or by
\* global_reconstruction or scale_separation.
ReconstructionCall(call, means) ==
    /\ pc = "idle"
    /\ LET ready == /\ n_components # None /\ n_data_vars # None
                    /\ n_time_steps # None /\ n_slides # None
                    /\ omega_classes # None /\ omega_array # None
                    /\ cluster_centroids # None
           fresh == ready /\ DOMAIN Val(omega_classes) = DOMAIN Val(omega_array)
                          /\ Size(Val(omega_classes)) = Size(Val(omega_array))
                          /\ Val(n_slides) = Cardinality(DOMAIN Val(omega_array))
       IN  IF fresh
           THEN /\ xr_sep' = Some([j \in 0..(Val(n_components) - 1) |->
                                     [t \in 0..(Val(n_time_steps) - 1) |-> << >>]])
                /\ xn' = Some(NewXn(xn, Val(n_time_steps)))
                /\ include_means' = means
                /\ recon_filter' = recon_filter
                /\ returned' = returned
                /\ k' = 0
                /\ pc' = "recon"
                /\ result' = Running(call)
           ELSE /\ UNCHANGED <<reconVars, k, pc>>
                /\ result' = Raised(call, IF ready THEN "IndexError" ELSE "TypeError")
    /\ UNCHANGED <<data, cfgVars, svd_rank, init_alpha, proj_basis, planVars,
                   arrayVars, clusterVars, optdmd, hist, xrVars>>

ScaleReconstruction(means) == ReconstructionCall("scale_reconstruction", means)

\* COSTS.global_reconstruction and COSTS.scale_separation: kwargs is the
\* include_means entry of scale_reconstruction_kwargs, None when absent.
GlobalReconstruction(kwargs) ==
    ReconstructionCall("global_reconstruction", IF kwargs = None THEN TRUE ELSE Val(kwargs))

ScaleSeparation(kwargs) ==
    ReconstructionCall("scale_separation", IF kwargs = None THEN TRUE ELSE Val(kwargs))

\* One iteration of scale_reconstruction's window loop, window k, and after
\* the last window the division by the normalization buffer.
ReconWindow ==
    /\ pc = "recon"
    /\ LET slides  == Val(n_slides)
           L       == Val(window_length)
           kern    == Val(BuildKern(L, Direction(k, slides)))
           samples == GetWindowIndices(k, Val(n_time_steps), L, Val(step_size),
                                       slides, Val(non_integer_n_slide))
           bands   == Unique(Val(omega_classes))
           lowest  == ArgMin(Val(cluster_centroids))
           weights == Accumulate(Val(xn), samples, kern)
           done    == k + 1 = slides
       IN  /\ xr_sep' = Some(AccumulateBands(Val(xr_sep), samples, k, bands,
                                             lowest, include_means))
           /\ xn' = Some(weights)
           /\ recon_filter' = Some([window_length |-> L,
                                    direction |-> Direction(k, slides),
                                    kern |-> Some(kern)])
           /\ k' = k + 1
           /\ pc' = IF done THEN "idle" ELSE "recon"
           /\ result' = IF ~done THEN result
                        ELSE IF Positive(weights) THEN Ok(result.op)
                        ELSE [op |-> result.op, status |-> "ok",
                              error |-> "RuntimeWarning: invalid value encountered in divide"]
           /\ returned' = IF ~done THEN returned
                          ELSE Some([call |-> result.op, means |-> include_means,
                                     value |-> ReturnValue(result.op, Val(xr_sep'),
                                                           weights)])
    /\ UNCHANGED <<data, cfgVars, svd_rank, init_alpha, proj_basis, planVars,
                   arrayVars, clusterVars, optdmd, hist, include_means, xrVars>>

(* ------------------------------ datasets ------------------------------- *)
\* The number of rows of a stored array and the length of its rows.
Rows(arr) == Cardinality(DOMAIN arr)

Width(arr) == Len(arr[0])

\* len(np.arange(n)).
ArangeLen(n) == IF n > 0 THEN n ELSE 0

\* The solver options to_xarray writes as attributes pydmd_kwargs__<kw>,
\* each sanitized; the projection basis is an array when fit has set it.
KwargsAttrs ==
    [kw \in DOMAIN pydmd_kwargs \cup {"proj_basis"} |->
        IF kw = "proj_basis"
        THEN XarraySanitize(IF proj_basis = None THEN PyNone
                            ELSE PyArray("proj_basis"))
        ELSE XarraySanitize(pydmd_kwargs[kw])]

\* COSTS.to_xarray.  The dataset cannot be built from arrays that are not
\* there, nor when a coordinate's length differs from the length of its
\* dimension in the data (svd_rank, frequency_band, window_index, slide).
ToXarray ==
    /\ pc = "idle"
    /\ LET ready == /\ time_array # None /\ omega_array # None
                    /\ amplitudes_array # None /\ modes_array # None
                    /\ window_means_array # None
                    /\ omega_classes # None /\ cluster_centroids # None
                    /\ n_components # None /\ n_slides # None
                    /\ window_length # None /\ n_data_vars # None
           sized == /\ ready
                    /\ Rows(Val(omega_array)) = Val(n_slides)
                    /\ Rows(Val(omega_classes)) = Val(n_slides)
                    /\ Width(Val(omega_array)) = ArangeLen(svd_rank)
                    /\ Width(Val(omega_classes)) = ArangeLen(svd_rank)
                    /\ Width(Val(time_array)) = Val(window_length)
                    /\ Len(Val(cluster_centroids)) = Val(n_components)
       IN  IF sized
           THEN /\ ds' = Some(
                     [omega |-> Val(omega_array),
                      omega_classes |-> Val(omega_classes),
                      amplitudes |-> Val(amplitudes_array),
                      modes |-> Val(modes_array),
                      window_means |-> Val(window_means_array),
                      cluster_centroids |-> Val(cluster_centroids),
                      time |-> Val(time_array),
                      proj_basis |-> proj_basis,
                      attrs |-> [svd_rank |-> svd_rank,
                                 svd_rank_pre_allocate |-> svd_rank_pre_allocate,
                                 omega_transformation |->
                                     XarraySanitize(ToPy(transform_method)),
                                 n_slides |-> n_slides,
                                 window_length |-> window_length,
                                 num_frequency_bands |-> n_components,
                                 n_data_vars |-> n_data_vars,
                                 n_time_steps |-> n_time_steps,
                                 step_size |-> step_size,
                                 non_integer_n_slide |-> non_integer_n_slide,
                                 global_svd |-> global_svd,
                                 kern_method |-> kern_method],
                      kwargs |-> KwargsAttrs])
                /\ result' = Ok("to_xarray")
           ELSE /\ ds' = ds
                /\ result' = Raised("to_xarray",
                                    IF ready THEN "ValueError: conflicting sizes"
                                    ELSE "TypeError")
    /\ UNCHANGED <<data, cfgVars, svd_rank, init_alpha, proj_basis, planVars,
                   arrayVars, clusterVars, optdmd, pc, k, hist, reconVars,
                   pydmd_kwargs>>

\* The options from_xarray restores from the attributes: each unsanitized,
\* and eig_constraints turned into a set.
RestoredKwargs(kwargs) ==
    [kw \in DOMAIN kwargs \ {"proj_basis"} |->
        IF kw = "eig_constraints" THEN ToSet(XarrayUnsanitize(kwargs[kw]))
        ELSE XarrayUnsanitize(kwargs[kw])]

\* COSTS.from_xarray on the dataset to_xarray returned last.  set() of the
\* unsanitized eig_constraints raises when that value is not iterable; the
\* options of a user's dictionary come first among the attributes, so by
\* then the dictionary holds eig_constraints alone, still unconverted.
FromXarray ==
    /\ pc = "idle"
    /\ ds # None
    /\ LET d      == Val(ds)
           raises == /\ "eig_constraints" \in DOMAIN d.kwargs
                     /\ SetRaises(XarrayUnsanitize(d.kwargs["eig_constraints"]))
           basis  == XarrayUnsanitize(d.kwargs["proj_basis"])
       IN  /\ omega_array' = Some(d.omega)
           /\ omega_classes' = Some(d.omega_classes)
           /\ amplitudes_array' = Some(d.amplitudes)
           /\ modes_array' = Some(d.modes)
           /\ window_means_array' = Some(d.window_means)
           /\ cluster_centroids' = Some(d.cluster_centroids)
           /\ time_array' = Some(d.time)
           /\ n_slides' = d.attrs.n_slides
           /\ svd_rank' = d.attrs.svd_rank
           /\ n_data_vars' = d.attrs.n_data_vars
           /\ n_time_steps' = d.attrs.n_time_steps
           /\ n_components' = d.attrs.num_frequency_bands
           /\ non_integer_n_slide' = d.attrs.non_integer_n_slide
           /\ step_size' = d.attrs.step_size
           /\ window_length' = d.attrs.window_length
           /\ global_svd' = d.attrs.global_svd
           /\ kern_method' = d.attrs.kern_method
           /\ svd_rank_pre_allocate' = d.attrs.svd_rank_pre_allocate
           /\ transform_method' = FromPy(XarrayUnsanitize(d.attrs.omega_transformation))
           /\ IF raises
              THEN /\ pydmd_kwargs' = [kw \in {"eig_constraints"} |->
                                         XarrayUnsanitize(d.kwargs[kw])]
                   /\ proj_basis' = None
                   /\ result' = Raised("from_xarray",
                                       "TypeError: object is not iterable")
              ELSE /\ pydmd_kwargs' = RestoredKwargs(d.kwargs)
                   /\ proj_basis' = IF basis.type = "ndarray" THEN d.proj_basis
                                    ELSE None
                   /\ result' = Ok("from_xarray")
    /\ UNCHANGED <<data, args, initialize_artificially, use_last_freq,
                   force_even_eigs, max_rank, reset_alpha_init, init_alpha,
                   raw, optdmd, pc, k, hist, reconVars, ds>>

(* --------------------------- specifications ---------------------------- *)
\* The values a centroid can settle on for the stored eigenvalues.
Candidates(method) ==
    IF omega_array = None \/ n_slides = None \/ svd_rank_pre_allocate = None
    THEN {0}
    ELSE IF Size(Val(omega_array)) # Val(n_slides) * Val(svd_rank_pre_allocate)
    THEN {0}
    ELSE LET points == TransformOmega(Flatten(Val(omega_array), Val(n_slides),
                                              Val(svd_rank_pre_allocate)), method)
         IN  IF points = None THEN {0} ELSE PointValues(Val(points))

Methods == {None, Some("absolute"), Some("square_frequencies"), Some("log10"),
            Some("period")}

\* Rank policy: every rank mode on small data, default seeding.
Init ==
    \E n \in 1..MaxVars, T \in 1..MaxFitT, rank \in (-1)..MaxRank,
       glob \in BOOLEAN, even \in BOOLEAN,
       maxr \in {None} \cup {Some(r) : r \in 1..MaxRank} :
        /\ Construct([vars |-> n, steps |-> T], rank, glob, FALSE, FALSE, NoSeed,
                  None, FALSE, even, maxr, None)
        /\ ConstructKwargs(None)

FitOnce(Ls, Ss) ==
    \E L \in Ls, S \in Ss, opt \in 1..MaxVars,
       tsize \in {data.steps, data.steps + 1} :
        /\ result.op = "init"
        /\ Fit(L, S, tsize, opt)

FitWindows(fs) == \E f \in fs, opt \in 1..MaxVars, ok \in BOOLEAN : FitWindow(f, opt, ok)

Next ==
    \/ FitOnce(1..(MaxFitT + 1), 1..2)
    \/ FitWindows({1})

Spec == Init /\ [][Next]_vars

\* Window planning and reconstruction: one variable, a rank-1 global basis,
\* every window length and step size on series of up to MaxT time steps and
\* on the two series of the documented examples.
ExampleCalls == {<<200, 40, 10>>, <<95, 10, 10>>}

InitPlan ==
    \E T \in (1..MaxT) \cup {c[1] : c \in ExampleCalls} :
        /\ Construct([vars |-> 1, steps |-> T], 1, TRUE, FALSE, FALSE, NoSeed,
                  None, FALSE, TRUE, None, None)
        /\ ConstructKwargs(None)

FitPlan ==
    \E L \in (1..MaxT) \cup {c[2] : c \in ExampleCalls},
       S \in (1..MaxS) \cup {c[3] : c \in ExampleCalls} :
        /\ result.op = "init"
        /\ data.steps > MaxT => <<data.steps, L, S>> \in ExampleCalls
        /\ L > MaxT \/ S > MaxS => <<data.steps, L, S>> \in ExampleCalls
        /\ Fit(L, S, data.steps, 1)

KernDirections == {"forward", "backward", "None", "sideways"}

KernCall ==
    \E L \in 1..MaxT, direction \in KernDirections :
        /\ result.op \in {"init", "build_kern"}
        /\ BuildKernCall(L, direction)

NextPlan ==
    \/ FitPlan
    \/ KernCall
    \/ FitWindow(1, 1, TRUE)
    \/ (result = Ok("fit") /\ ClusterOmega(1, Some("absolute"), <<1>>, TRUE))
    \/ (result = Ok("cluster_omega") /\ ScaleReconstruction(TRUE))
    \/ ReconWindow

SpecPlan == InitPlan /\ [][NextPlan]_vars

\* Clustering: fits whose windows find different frequencies, then every
\* transform method, band count and outcome of the clustering capability.
\* (a global basis of rank 2, or the adaptive local rank, which leaves
\* zero-padded slots when the window is shorter than the data are wide).
InitCluster ==
    \E T \in 2..MaxFitT, glob \in BOOLEAN :
        /\ Construct([vars |-> 2, steps |-> T], IF glob THEN 2 ELSE 0, glob, FALSE,
                  FALSE, NoSeed, None, FALSE, TRUE, None, None)
        /\ ConstructKwargs(None)

Cluster ==
    \E ncomp \in 1..MaxComponents, method \in Methods :
        \E cents \in [1..ncomp -> Candidates(method)] :
            /\ result = Ok("fit")
            /\ ClusterOmega(ncomp, method, cents, TRUE)

ClusterNoFitPredict ==
    /\ result = Ok("fit")
    /\ ClusterOmega(1, Some("absolute"), <<0>>, FALSE)

SweepRanges == {None, Some(<<2>>), Some(<<2, 3>>)}

Sweep ==
    \E range \in SweepRanges, method \in Methods,
       has_fit_predict \in BOOLEAN, scored \in BOOLEAN :
        /\ result = Ok("fit")
        /\ ClusterHyperparameterSweep(range, method, has_fit_predict, scored)

Serialize ==
    /\ result = Ok("cluster_omega")
    /\ ToXarray

NextCluster ==
    \/ FitOnce(1..2, {1})
    \/ \E f \in Freqs : FitWindow(f, 1, TRUE)
    \/ Cluster
    \/ ClusterNoFitPredict
    \/ Sweep
    \/ Serialize

SpecCluster == InitCluster /\ [][NextCluster]_vars

\* Seeding: every combination of the seed arguments of the constructor, on
\* two variables at rank 2; the object is fit, clustered and fit again.
UserAlpha == EigSeed(<<5, -5>>)

UserCentroids == Some(<<1, 100>>)

InitSeed ==
    \E glob \in BOOLEAN, artificial \in BOOLEAN,
       last \in BOOLEAN, reset \in BOOLEAN, alpha \in {NoSeed, UserAlpha},
       centroids \in {None, UserCentroids}, ncomp \in {None, Some(2)} :
        /\ Construct([vars |-> 2, steps |-> 2], 2, glob, artificial, last, alpha,
                  centroids, reset, TRUE, None, ncomp)
        /\ ConstructKwargs(None)

FitAgain ==
    \E L \in 1..2 :
        /\ result.op \in {"init", "cluster_omega"}
        /\ Fit(L, 1, data.steps, 1)

NextSeedSpec ==
    \/ FitAgain
    \/ \E f \in {1, 10} : FitWindow(f, 1, TRUE)
    \/ \E ncomp \in 1..2 : \E cents \in [1..ncomp -> Candidates(Some("absolute"))] :
          /\ result = Ok("fit")
          /\ \A i \in 1..(ncomp - 1) : cents[i] < cents[i + 1]
          /\ ClusterOmega(ncomp, Some("absolute"), cents, TRUE)

SpecSeed == InitSeed /\ [][NextSeedSpec]_vars

\* Reconstruction: fits whose windows find different frequencies, clustered
\* into one or two bands, then reconstructed with and without the window
\* means, any number of times.
ClusterBands ==
    \E ncomp \in 1..2, method \in {Some("absolute"), Some("period")} :
        \E cents \in [1..ncomp -> Candidates(method)] :
            /\ result = Ok("fit")
            /\ ClusterOmega(ncomp, method, cents, TRUE)

Reconstruct ==
    \E means \in BOOLEAN, kwargs \in {None, Some(TRUE), Some(FALSE)} :
        /\ result.op \in {"cluster_omega"} \cup ReconCalls
        /\ result.status = "ok"
        /\ \/ ScaleReconstruction(means)
           \/ GlobalReconstruction(kwargs)
           \/ ScaleSeparation(kwargs)

SweepBands ==
    /\ result.op \in {"fit", "cluster_omega"}
    /\ result.status = "ok"
    /\ ClusterHyperparameterSweep(Some(<<2>>), Some("absolute"), TRUE, TRUE)

NextRecon ==
    \/ FitOnce(1..2, {1})
    \/ \E f \in {1, 10} : FitWindow(f, 1, TRUE)
    \/ ClusterBands
    \/ SweepBands
    \/ Reconstruct
    \/ ReconWindow

SpecRecon == InitCluster /\ [][NextRecon]_vars

\* Seeds from centroids: an object of every rank, fit, clustered into every
\* number of bands and fit again with initialize_artificially set.
InitClusterSeed ==
    \E rank \in 1..MaxRank, glob \in BOOLEAN :
        /\ Construct([vars |-> MaxRank, steps |-> MaxRank], rank, glob, TRUE, FALSE,
                  NoSeed, None, FALSE, FALSE, None, None)
        /\ ConstructKwargs(None)

FitSeeded ==
    \E L \in 1..2 :
        /\ result.op \in {"init", "cluster_omega"}
        /\ Fit(L, 1, data.steps, 1)

ClusterForSeed ==
    \E ncomp \in 1..MaxComponents :
        \E cents \in [1..ncomp -> Candidates(Some("absolute"))] :
            /\ result = Ok("fit")
            /\ \A i \in 1..(ncomp - 1) : cents[i] < cents[i + 1]
            /\ ClusterOmega(ncomp, Some("absolute"), cents, TRUE)

NextClusterSeed ==
    \/ FitSeeded
    \/ \E f \in Freqs : FitWindow(f, 1, TRUE)
    \/ ClusterForSeed

SpecClusterSeed == InitClusterSeed /\ [][NextClusterSeed]_vars

\* Window order: the loop body of fit run once per window, the windows taken
\* in any order; the data of window w has the frequency WindowFreq(w).
WindowFreq(w) == IF w % 2 = 0 THEN 1 ELSE 10

InitOrder ==
    \E T \in 2..MaxFitT, glob \in BOOLEAN, artificial \in BOOLEAN,
       last \in BOOLEAN, reset \in BOOLEAN, alpha \in {NoSeed, UserAlpha} :
        /\ Construct([vars |-> 2, steps |-> T], 2, glob, artificial, last, alpha,
                  None, reset, TRUE, None, None)
        /\ ConstructKwargs(None)

FitOrder ==
    \E L \in 1..2 :
        /\ result.op = "init"
        /\ Fit(L, 1, data.steps, 1)

Fitted == {hist[i].window : i \in 1..Len(hist)}

FitAnyOrder ==
    /\ pc = "fit"
    /\ \E w \in (0..(Val(n_slides) - 1)) \ Fitted :
          LoopBody(w, WindowFreq(w), 1, TRUE, Len(hist) + 1 = Val(n_slides))

NextOrder ==
    \/ FitOrder
    \/ FitAnyOrder

SpecOrder == InitOrder /\ [][NextOrder]_vars

(* ------------------------------- claims -------------------------------- *)
FitDone == pc = "idle" /\ result = Ok("fit")

ReconDone == pc = "idle" /\ result.op \in ReconCalls /\ result.status = "ok"

\* C1: for every T, L <= T and S, once scale_reconstruction has accumulated
\* all windows the normalization buffer is strictly positive at every time
\* step, so the final division is never by zero.
C1_NormalizationPositive == ReconDone => Positive(Val(xn))

\* C2: fit sets n_slides = floor((T - L) / S) + 1 and non_integer_n_slide =
\* False when S * floor((T - L) / S) + L = T, and otherwise one slide more
\* and the flag True; T = 200, L = 40, S = 10 gives 17 slides, flag False.
C2_SlideCount ==
    (result.op = "fit" /\ result.status # "raised") =>
        LET T     == Val(n_time_steps)
            L     == Val(window_length)
            S     == Val(step_size)
            whole == (T - L) \div S
            exact == S * whole + L = T
        IN  /\ exact => n_slides = Some(whole + 1) /\ non_integer_n_slide = Some(FALSE)
            /\ ~exact => n_slides = Some(whole + 2) /\ non_integer_n_slide = Some(TRUE)
            /\ <<T, L, S>> = <<200, 40, 10>> =>
                   n_slides = Some(17) /\ non_integer_n_slide = Some(FALSE)

\* C3: every slide selects exactly L consecutive samples inside [0, T): the
\* samples S*k .. S*k + L - 1, except a last slide flagged non-integer, which
\* selects the final L samples T - L .. T - 1.
C3_WindowIndices ==
    (result.op = "fit" /\ result.status # "raised") =>
        LET T      == Val(n_time_steps)
            L      == Val(window_length)
            S      == Val(step_size)
            slides == Val(n_slides)
        IN  \A w \in 0..(k - 1) :
                LET first == IF w = slides - 1 /\ Val(non_integer_n_slide)
                             THEN T - L ELSE S * w
                IN  /\ Val(time_array)[w] = [i \in 1..L |-> first + i - 1]
                    /\ first >= 0
                    /\ first + L <= T

\* The flagged last slide of T = 95, L = 10, S = 10 has been fit: 85 .. 94.
C3_Witness ==
    /\ FitDone
    /\ n_time_steps = Some(95) /\ window_length = Some(10) /\ step_size = Some(10)
    /\ non_integer_n_slide = Some(TRUE)
    /\ Val(time_array)[Val(n_slides) - 1] = [i \in 1..10 |-> 84 + i]

\* C4: in every rank mode and for every window, the rank configured on the
\* solver is at most svd_rank_pre_allocate.
C4_RankWithinCapacity ==
    (result.op = "fit" /\ svd_rank_pre_allocate # None) =>
        \A i \in 1..Len(hist) : hist[i].rank <= Val(svd_rank_pre_allocate)

\* C5: while a fit runs and after it completed, each fitted window's modes,
\* eigenvalues and amplitudes hold the solver's values in the slots below its
\* fitted rank and exactly zero in the slots at or beyond it, and the windows
\* not yet fitted are still all zero: writing one window changes no other.
C5_ZeroPadded ==
    (result.op = "fit" /\ result.status # "raised") =>
        \A w \in DOMAIN Val(omega_array) :
            \A i \in 1..Val(svd_rank_pre_allocate) :
                IF w < k /\ i <= hist[w + 1].fitted
                THEN /\ Val(omega_array)[w][i] = hist[w + 1].eigs[i]
                     /\ Val(modes_array)[w][i] # 0
                     /\ Val(amplitudes_array)[w][i] # 0
                ELSE /\ Val(omega_array)[w][i] = 0
                     /\ Val(modes_array)[w][i] = 0
                     /\ Val(amplitudes_array)[w][i] = 0

\* A completed fit of several windows, one of which has a fitted rank below
\* the pre-allocated width.
C5_Witness ==
    /\ FitDone
    /\ Len(hist) >= 2
    /\ \E i \in 1..Len(hist) : hist[i].fitted < Val(svd_rank_pre_allocate)
    /\ \E i \in 1..Len(hist) : hist[i].fitted >= 2

\* The entries (window, slot) of the stored eigenvalue array.
Entries == {<<w, i>> : w \in DOMAIN Val(omega_array),
                       i \in 1..Val(svd_rank_pre_allocate)}

Clustered == result = Ok("cluster_omega")

\* C6: after cluster_omega, with each of the four transform methods, band 0
\* is the lowest-frequency band: no eigenvalue of band 0 has a larger
\* |imaginary part| than an eigenvalue of another band.
C6_BandZeroLowest ==
    Clustered =>
        \A a \in Entries, b \in Entries :
            (Val(omega_classes)[a[1]][a[2]] = 0 /\ Val(omega_classes)[b[1]][b[2]] # 0)
                => Abs(Val(omega_array)[a[1]][a[2]]) <= Abs(Val(omega_array)[b[1]][b[2]])

C8_BothSeedsFail ==
    (/\ initialize_artificially
     /\ args.init_alpha # NoSeed
     /\ (args.cluster_centroids # None \/ cluster_centroids # None))
        => pc # "fit"

\* C9: with initialize_artificially enabled, no init_alpha and
\* cluster_centroids passed to the constructor, the seed of the first window
\* is derived from those centroids.
C9_CentroidSeed ==
    (/\ initialize_artificially
     /\ args.init_alpha = NoSeed
     /\ args.cluster_centroids # None
     /\ result.op = "fit"
     /\ hist # << >>)
        => /\ hist[1].seed.kind = "sqrt"
           /\ \A i \in 1..Len(hist[1].seed.vals) :
                  \E j \in 1..Len(Val(args.cluster_centroids)) :
                      hist[1].seed.vals[i] = Val(args.cluster_centroids)[j]

\* C10: a user-supplied init_alpha is the seed of the first window, whatever
\* the value of initialize_artificially.
C10_UserSeed ==
    (args.init_alpha # NoSeed /\ result.op = "fit" /\ hist # << >>)
        => hist[1].seed = args.init_alpha

\* The messages of the ValueErrors fit raises before it builds the solver.
ConfigurationErrors ==
    {"Data and time dimensions do not align.",
     "Window length is larger than the time dimension",
     "svd_rank is odd, but force_even_eigs is True.",
     "Rank is larger than the data spatial dimension."}

\* C11: whenever fit is called with a time vector whose length differs from
\* the number of data columns, or with a window_length above the number of
\* time steps, it raises the matching ValueError and the solver has been
\* invoked on no window.
C11_ConfigurationErrors ==
    [][\A L \in 1..(MaxFitT + 1), S \in 1..2, opt \in 1..MaxVars,
          tsize \in 1..(MaxFitT + 1) :
          (Fit(L, S, tsize, opt) /\ (tsize # data.steps \/ L > data.steps)) =>
              /\ result' = Raised("fit",
                     IF tsize # data.steps
                     THEN "Data and time dimensions do not align."
                     ELSE "Window length is larger than the time dimension")
              /\ pc' = "idle"
              /\ hist' = << >>
              /\ optdmd' = optdmd]_vars

\* fit was called with a window longer than the series and has raised.
C11_Witness ==
    /\ result = Raised("fit", "Window length is larger than the time dimension")
    /\ Val(window_length) > Val(n_time_steps)
    /\ hist = << >>

\* C12: with global_svd False and an explicit positive svd_rank, fit raises
\* a ValueError when svd_rank is odd while force_even_eigs is enabled and
\* when svd_rank exceeds the number of spatial variables; no window is fit.
C12_RankValidation ==
    (/\ result.op = "fit"
     /\ ~global_svd /\ svd_rank > 0
     /\ (force_even_eigs /\ svd_rank % 2 = 1) \/ svd_rank > data.vars)
        => /\ result.status = "raised"
           /\ result.error \in ConfigurationErrors
           /\ (result.error = "svd_rank is odd, but force_even_eigs is True."
                   => svd_rank % 2 = 1)
           /\ (result.error = "Rank is larger than the data spatial dimension."
                   => svd_rank > data.vars)
           /\ pc = "idle"
           /\ hist = << >>

\* An even rank above the number of variables has been refused.
C12_Witness ==
    /\ result = Raised("fit", "Rank is larger than the data spatial dimension.")
    /\ force_even_eigs /\ ~global_svd
    /\ hist = << >>

\* C13: the windows are attempted once each in increasing order, and when
\* the solver fails on window k fit ends with the solver's failure: window
\* k is the last one attempted and no later window is ever written.
C13_SolverFailureStops ==
    /\ \A i \in 1..Len(hist) : hist[i].window = i - 1
    /\ result = Raised("fit", "solver failure") =>
           /\ pc = "idle"
           /\ hist # << >>
           /\ hist[Len(hist)].window = k
           /\ hist[Len(hist)].fitted = 0
           /\ \A w \in DOMAIN Val(omega_array) :
                  w >= k => /\ Val(omega_array)[w] = Zeros(Val(svd_rank_pre_allocate))
                            /\ Val(modes_array)[w] = Zeros(Val(svd_rank_pre_allocate))

\* The solver failed on a window after the first, with windows left to fit.
C13_Witness ==
    /\ result = Raised("fit", "solver failure")
    /\ k >= 1
    /\ k + 1 < Val(n_slides)

\* The result arrays hold some windows written and the others still zero.
PartiallyPopulated ==
    /\ modes_array # None
    /\ \E w \in DOMAIN Val(modes_array) :
           Val(modes_array)[w] # Zeros(Val(svd_rank_pre_allocate))
    /\ \E w \in DOMAIN Val(modes_array) :
           Val(modes_array)[w] = Zeros(Val(svd_rank_pre_allocate))

\* C14: when fit has failed, the result arrays readable on the object do
\* not hold a partially populated fit.
C14_NoPartialResult ==
    (result.op = "fit" /\ result.status = "raised") => ~PartiallyPopulated

\* Persistence: every solver option a user can pass, on a fitted and
\* clustered object that is written to a dataset and read back.
OptionKeys == {"eig_sort", "eig_constraints", "num_trials", "mode_prox"}

OptionValues ==
    {PyNone, PyStr("imag"), PyStr("None"), PyNum("0"), PyBool(TRUE),
     PySet(<< >>), PySet(<<"stable">>), PySet(<<"conjugate_pairs", "stable">>),
     PyFunction("f")}

InitXarray ==
    \E T \in 1..2,
       user \in {None} \cup {Some([kw \in {key} |-> v]) :
                                key \in OptionKeys, v \in OptionValues} :
        /\ Construct([vars |-> 1, steps |-> T], 1, TRUE, FALSE, FALSE, NoSeed,
                      None, FALSE, TRUE, None, None)
        /\ ConstructKwargs(user)

NextXarray ==
    \/ (result.op = "init" /\ Fit(1, 1, data.steps, 1))
    \/ FitWindow(1, 1, TRUE)
    \/ \E method \in {None, Some("absolute")} :
          (result = Ok("fit") /\ ClusterOmega(1, method, <<1>>, TRUE))
    \/ ToXarray
    \/ FromXarray

SpecXarray == InitXarray /\ [][NextXarray]_vars

\* The value types the storage encoding promises to restore.
Restorable == {"NoneType", "set", "number", "bool", "str"}

\* C15: for every option key and every option value that is None, a set, a
\* number or a string, from_xarray of the dataset to_xarray made of the
\* object succeeds and restores the option to a value equal to the original.
C15_OptionsRoundTrip ==
    [][(FromXarray /\ Val(ds).kwargs = KwargsAttrs) =>
          /\ result'.status = "ok"
          /\ \A kw \in DOMAIN pydmd_kwargs :
                 pydmd_kwargs[kw].type \in Restorable =>
                     /\ kw \in DOMAIN pydmd_kwargs'
                     /\ pydmd_kwargs'[kw] = pydmd_kwargs[kw]]_vars

\* C16: cluster_omega and the hyperparameter sweep, called after a fit with
\* a clustering method that has no fit_predict, raise the ValueError
\* "Clustering method must have fit_predict() method.".
C16_MissingFitPredict ==
    [][(/\ result = Ok("fit")
        /\ \/ ClusterOmega(1, Some("absolute"), <<0>>, FALSE)
           \/ \E scored \in BOOLEAN :
                 ClusterHyperparameterSweep(Some(<<2>>), Some("absolute"),
                                            FALSE, scored))
          => /\ result'.status = "raised"
             /\ result'.error = "Clustering method must have fit_predict() method."]_vars

\* C17: cluster_omega and the hyperparameter sweep, called after a fit
\* without a transform_method, transform the eigenvalues with "absolute"
\* and succeed.
C17_DefaultTransform ==
    [][(/\ result = Ok("fit")
        /\ \/ ClusterOmega(1, None, <<0>>, TRUE)
           \/ ClusterHyperparameterSweep(Some(<<2>>), None, TRUE, TRUE))
          => /\ result'.status = "ok"
             /\ result'.op = "cluster_omega" => transform_method' = Some("absolute")]_vars

\* C18: for every window length L, the kernel of direction "forward" is
\* exactly 1 at every index of [L div 2, L), the kernel of direction
\* "backward" is exactly 1 at every index of [0, L div 2), the kernel of
\* direction None has no forced ones and is symmetric about the window
\* centre, and any other direction raises an error.
C18_BuildKern ==
    recon_filter # None =>
        LET call == Val(recon_filter)
            L    == call.window_length
            kern == Val(call.kern)
        IN  /\ call.direction \in {"forward", "backward", "None"} =>
                   call.kern # None /\ Len(kern) = L
            /\ call.direction = "forward" =>
                   \A i \in (L \div 2)..(L - 1) : kern[i + 1].forced
            /\ call.direction = "backward" =>
                   \A i \in 0..((L \div 2) - 1) : kern[i + 1].forced
            /\ call.direction = "None" =>
                   \A i \in 0..(L - 1) : /\ ~kern[i + 1].forced
                                          /\ kern[i + 1] = kern[L - i]
            /\ call.direction \notin {"forward", "backward", "None"} =>
                   call.kern = None /\ result.status = "raised"

\* A forward kernel of an odd length has been built by a direct call.
C18_Witness ==
    /\ result = Ok("build_kern")
    /\ Val(recon_filter).direction = "forward"
    /\ Val(recon_filter).window_length = 5

\* C19: with use_last_freq set, in every rank mode, the seed the solver
\* holds when window k+1 is fit equals the eigenvalues fitted for window k.
C19_CarryLast ==
    use_last_freq =>
        \A i \in 2..Len(hist) : hist[i].seed = EigSeed(hist[i - 1].eigs)

\* C20: with reset_alpha_init set and use_last_freq off, in every rank mode,
\* the seed is cleared after every window, so that every window after the
\* first starts from an unset seed.
C20_ResetEachWindow ==
    (reset_alpha_init /\ ~use_last_freq) =>
        /\ \A i \in 2..Len(hist) : hist[i].seed = NoSeed
        /\ hist # << >> => Val(optdmd).init_alpha = NoSeed

\* C21: with neither use_last_freq nor reset_alpha_init, the seed handed to
\* the solver for every window k >= 1 equals the seed used for window 0.
C21_HoldInitial ==
    (~use_last_freq /\ ~reset_alpha_init) =>
        \A i \in 2..Len(hist) : hist[i].seed = hist[1].seed

\* Two windows have been fit from a given seed, the solver rebuilt per window.
C21_Witness ==
    /\ ~use_last_freq /\ ~reset_alpha_init /\ ~global_svd
    /\ Len(hist) >= 2
    /\ hist[1].seed # NoSeed

\* C22: with force_even_eigs set, the rank configured on the solver is even
\* for every window, also when the rank of the window is clamped to
\* max_rank and when a global basis is used.
C22_EvenRank ==
    force_even_eigs =>
        \A i \in 1..Len(hist) : hist[i].rank % 2 = 0

\* C23: after any sequence of fit, cluster_omega and repeated fit calls,
\* whenever omega_classes is set its shape equals the shape of omega_array
\* (n_slides x svd_rank_pre_allocate of the current fit) and every entry
\* is a band id in 0..n_components-1.
C23_ClassesShape ==
    (omega_classes # None /\ omega_array # None) =>
        LET classes == Val(omega_classes)
            omega   == Val(omega_array)
        IN  /\ DOMAIN classes = DOMAIN omega
            /\ Rows(omega) = Val(n_slides)
            /\ \A w \in DOMAIN classes :
                   /\ Len(classes[w]) = Len(omega[w])
                   /\ Len(classes[w]) = Val(svd_rank_pre_allocate)
                   /\ \A i \in 1..Len(classes[w]) :
                          classes[w][i] \in 0..(Val(n_components) - 1)

\* The row of eigenvalues of window w as the configuration fit set before
\* the loop determines it.
ExpectedRow(w) ==
    LET samples == GetWindowIndices(w, Val(n_time_steps), Val(window_length),
                                    Val(step_size), Val(n_slides),
                                    Val(non_integer_n_slide))
        fitted  == SolverRank(proj_basis, Val(n_data_vars), Cardinality(samples),
                              svd_rank)
    IN  AssignSlots(Zeros(Val(svd_rank_pre_allocate)),
                    SolverEigs(fitted, WindowFreq(w)))

Reconstructed == (pc = "recon" /\ k >= 1) \/ ReconDone

\* C25: in scale_reconstruction window 0 uses the backward variant, the
\* last window (index n_slides-1) uses the forward variant and every other
\* window the interior variant, for every n_slides >= 1, a single-window
\* fit included.
C25_KernelPerWindow ==
    Reconstructed =>
        LET w      == k - 1
            filter == Val(recon_filter)
        IN  /\ filter.kern = BuildKern(Val(window_length), filter.direction)
            /\ w = 0 => filter.direction = "backward"
            /\ w = Val(n_slides) - 1 => filter.direction = "forward"
            /\ (w # 0 /\ w # Val(n_slides) - 1) => filter.direction = "None"

\* C25 as amended: window 0 uses the backward variant; the last window uses
\* the forward variant when it is not window 0; every other window uses
\* the interior variant.
C25_KernelPerWindowAmended ==
    Reconstructed =>
        LET w      == k - 1
            filter == Val(recon_filter)
        IN  /\ filter.kern = BuildKern(Val(window_length), filter.direction)
            /\ w = 0 => filter.direction = "backward"
            /\ (w # 0 /\ w = Val(n_slides) - 1) => filter.direction = "forward"
            /\ (w # 0 /\ w # Val(n_slides) - 1) => filter.direction = "None"

\* A reconstruction over at least three windows has reached its last one.
C25_Witness ==
    /\ ReconDone
    /\ Val(n_slides) >= 3
    /\ Val(recon_filter).direction = "forward"

\* The number of times window w has been added to band j at sample t, and
\* the number of those additions that carried the window mean.
Added(j, t, w) ==
    Cardinality({i \in 1..Len(Val(xr_sep)[j][t]) : Val(xr_sep)[j][t][i].window = w})

MeanAdded(j, t, w) ==
    Cardinality({i \in 1..Len(Val(xr_sep)[j][t]) :
                    /\ Val(xr_sep)[j][t][i].window = w
                    /\ Val(xr_sep)[j][t][i].mean})

\* C26: in scale_reconstruction, for every window, the stored window mean
\* is added to band 0 exactly once when include_means is True, is never
\* added to a band j >= 1, and is added to no band when include_means is
\* False.
C26_MeansInBandZero ==
    ReconDone =>
        \A w \in 0..(Val(n_slides) - 1) :
            \A t \in GetWindowIndices(w, Val(n_time_steps), Val(window_length),
                                      Val(step_size), Val(n_slides),
                                      Val(non_integer_n_slide)) :
                /\ MeanAdded(0, t, w) = IF include_means THEN 1 ELSE 0
                /\ \A j \in 1..(Val(n_components) - 1) : MeanAdded(j, t, w) = 0

\* Two bands over at least two windows have been reconstructed with the
\* window means.
C26_Witness ==
    /\ ReconDone
    /\ include_means
    /\ Val(n_components) = 2
    /\ Val(n_slides) >= 2
    /\ Unique(Val(omega_classes)) = {0, 1}

\* C27: the stored classification, band centroids and band count reflect
\* the most recent clustering: a call of cluster_omega and a run of the
\* hyperparameter sweep (here over the band count 2) each overwrite the
\* stored omega_classes and cluster_centroids with the ones they computed.
C27_MostRecentClustering ==
    /\ Clustered =>
           /\ Val(n_components) = Len(Val(raw).centroids)
           /\ Val(cluster_centroids) = SortCentroids(Val(raw).centroids, Val(raw).idx)
           /\ \A e \in Entries :
                  Val(omega_classes)[e[1]][e[2]]
                      = Val(raw).lut[Val(raw).labels[e[1]][e[2]] + 1]
    /\ result = Ok("cluster_hyperparameter_sweep") =>
           /\ n_components = Some(2)
           /\ cluster_centroids # None /\ Len(Val(cluster_centroids)) = 2
           /\ omega_classes # None

\* C27 as amended: each successful call of cluster_omega overwrites the
\* stored classification, centroids and band count with the ones it
\* computed; the hyperparameter sweep stores nothing and leaves them as
\* they were.
C27_SweepStoresNothing ==
    [][/\ result' = Ok("cluster_omega") =>
              /\ Val(n_components') = Len(Val(raw').centroids)
              /\ Val(cluster_centroids')
                     = SortCentroids(Val(raw').centroids, Val(raw').idx)
              /\ \A w \in DOMAIN Val(omega_classes') :
                     \A i \in 1..Len(Val(omega_classes')[w]) :
                        Val(omega_classes')[w][i]
                            = Val(raw').lut[Val(raw').labels[w][i] + 1]
       /\ result'.op = "cluster_hyperparameter_sweep" =>
              UNCHANGED <<omega_classes, cluster_centroids, n_components>>]_vars

\* A sweep has run on an object clustered into one band.
C27_Witness ==
    /\ result = Ok("cluster_hyperparameter_sweep")
    /\ n_components = Some(1)
    /\ omega_classes # None

\* C28: scale_reconstruction, global_reconstruction and scale_separation
\* leave the core state unchanged (the fitted arrays, the classification,
\* the centroids and the window geometry), and a call repeated on the same
\* fitted and clustered object with the same arguments returns the same
\* result.
C28_ReconstructionIsPure ==
    [][/\ (pc = "recon" \/ pc' = "recon" \/ result'.op \in ReconCalls) =>
              UNCHANGED <<arrayVars, clusterVars, planVars>>
       /\ (/\ pc = "recon" /\ pc' = "idle"
           /\ returned # None
           /\ Val(returned).call = Val(returned').call
           /\ Val(returned).means = Val(returned').means) =>
              returned' = returned]_vars

\* scale_separation, having returned once, is called again with the same
\* arguments on an object of two bands and reaches its last window.
C28_Witness ==
    /\ pc = "recon"
    /\ result.op = "scale_separation"
    /\ Val(n_components) = 2 /\ Val(n_slides) >= 2
    /\ k = Val(n_slides) - 1
    /\ returned # None /\ Val(returned).call = "scale_separation"
    /\ Val(returned).means = include_means

\* C29: for every svd_rank >= 1 and every number of stored centroids
\* n_components >= 1, the seed _build_initialization derives from the
\* centroids is well defined and has exactly svd_rank entries, each
\* +sqrt(centroid)*i or -sqrt(centroid)*i for one of the stored centroids.
C29_ClusterSeedShape ==
    [][(/\ initialize_artificially
        /\ init_alpha = NoSeed
        /\ cluster_centroids # None
        /\ result.op = "cluster_omega" /\ result'.op = "fit") =>
           /\ result'.status # "raised"
           /\ init_alpha'.kind = "sqrt"
           /\ Len(init_alpha'.vals) = svd_rank'
           /\ \A i \in 1..Len(init_alpha'.vals) :
                  /\ \E j \in 1..Len(Val(cluster_centroids)) :
                         init_alpha'.vals[i] = Val(cluster_centroids)[j]
                  /\ init_alpha'.signs[i] \in {1, -1}]_vars

\* C30: in every state reached by a successful fit followed by
\* cluster_omega, in every rank mode, the length of the svd_rank coordinate
\* to_xarray builds (svd_rank) equals the rank-slot width of the stored
\* arrays (svd_rank_pre_allocate), so that to_xarray serializes the object.
C30_RankCoordinate ==
    /\ Clustered =>
           /\ ArangeLen(svd_rank) = Val(svd_rank_pre_allocate)
           /\ ArangeLen(svd_rank) = Width(Val(omega_array))
    /\ result.op = "to_xarray" => result.status = "ok" /\ ds # None

====
